---- MODULE Spec2Model ----
(***************************************************************************)
(* A model of downloadsu.py: make_filename (a pure function on strings),   *)
(* download_file (stream to a temporary file, then move), download_all     *)
(* (the walk over seasons and videos) and the __main__ block (statistics   *)
(* and the final summary).                                                 *)
(*                                                                         *)
(* A Python str is a sequence of one-character strings.                    *)
(***************************************************************************)
EXTENDS Integers, Sequences, FiniteSets, TLC

\* ------------------------------------------------------------------------
\* Bounds of the model
\* ------------------------------------------------------------------------
MaxLen == 3        \* longest arbitrary url / title handed to make_filename
MaxText == 2       \* longest <text> of a well-formed title
MaxDigits == 2     \* longest season / episode digit string of a well-formed url
MaxElems == 4      \* elements (season containers and sources) of a document
MaxChunks == 2     \* chunks of one streamed response

\* ------------------------------------------------------------------------
\* Characters and the str methods make_filename uses
\* ------------------------------------------------------------------------
LowerChars == <<"a","b","c","d","e","f","g","h","i","j","k","l","m",
                "n","o","p","q","r","s","t","u","v","w","x","y","z">>
UpperChars == <<"A","B","C","D","E","F","G","H","I","J","K","L","M",
                "N","O","P","Q","R","S","T","U","V","W","X","Y","Z">>
Digits == {"0","1","2","3","4","5","6","7","8","9"}
Whitespace == {" "}

Range(s) == {s[i] : i \in 1..Len(s)}

IsLower(c) == c \in Range(LowerChars)
IsUpper(c) == c \in Range(UpperChars)
IsCased(c) == IsLower(c) \/ IsUpper(c)

IndexIn(c, s) == CHOOSE i \in 1..Len(s) : s[i] = c

ToLower(c) == IF IsUpper(c) THEN LowerChars[IndexIn(c, UpperChars)] ELSE c
ToUpper(c) == IF IsLower(c) THEN UpperChars[IndexIn(c, LowerChars)] ELSE c

\* str.lower()
Lower(s) == [i \in 1..Len(s) |-> ToLower(s[i])]

\* str.title(): a cased character is upper-cased unless the character before
\* it is cased, in which case it is lower-cased.
Title(s) ==
    [i \in 1..Len(s) |->
        IF i > 1 /\ IsCased(s[i-1]) THEN ToLower(s[i]) ELSE ToUpper(s[i])]

\* str.zfill(width) on a string of digits
Zfill(s, width) ==
    IF Len(s) >= width THEN s ELSE [i \in 1..(width - Len(s)) |-> "0"] \o s

\* str.split(sep) for a one-character separator: the list of pieces
RECURSIVE Split(_, _)
Split(s, sep) ==
    LET idx == {i \in 1..Len(s) : s[i] = sep}
    IN  IF idx = {} THEN <<s>>
        ELSE LET i == CHOOSE j \in idx : \A k \in idx : j <= k
             IN  <<SubSeq(s, 1, i - 1)>> \o Split(SubSeq(s, i + 1, Len(s)), sep)

\* url.split('/')[-1]
UrlTail(url) == LET p == Split(url, "/") IN p[Len(p)]

StartsWith(s, p) == Len(s) >= Len(p) /\ SubSeq(s, 1, Len(p)) = p

\* length of the longest prefix of s, from position from on, made of chars in cls
RECURSIVE RunLen(_, _, _)
RunLen(s, from, cls) ==
    IF from <= Len(s) /\ s[from] \in cls THEN 1 + RunLen(s, from + 1, cls) ELSE 0

\* ------------------------------------------------------------------------
\* The regular expressions of make_filename
\* ------------------------------------------------------------------------
ShortMarker == <<"s","h","o","r","t">>

\* re.match('\A(short)?s(?P<season>[0-9]+)e(?P<episode>[0-9]+)', name),
\* after the (short)? group.  Every quantifier is greedy and no shorter
\* choice can match: with "short" not taken the next character is "h", with
\* fewer digits taken it is a digit.
SeasonEpisodeFrom(name) ==
    LET ns == RunLen(name, 2, Digits)
        ne == RunLen(name, 3 + ns, Digits)
    IN  IF /\ Len(name) >= 1 /\ name[1] = "s"
           /\ ns >= 1
           /\ Len(name) >= 2 + ns /\ name[2 + ns] = "e"
           /\ ne >= 1
        THEN [matched |-> TRUE,
              season  |-> SubSeq(name, 2, 1 + ns),
              episode |-> SubSeq(name, 3 + ns, 2 + ns + ne)]
        ELSE [matched |-> FALSE, season |-> <<>>, episode |-> <<>>]

\* the pattern without its (short)? group
SeasonEpisodeMatchNoShort(name) == SeasonEpisodeFrom(name)

SeasonEpisodeMatch(name) ==
    LET rest == IF StartsWith(name, ShortMarker)
                THEN SubSeq(name, Len(ShortMarker) + 1, Len(name))
                ELSE name
    IN  SeasonEpisodeFrom(rest)

\* re.sub('["/<>|*.]+', '', title)
Illegal == {"\"", "/", "<", ">", "|", "*", "."}
StripIllegal(title) == SelectSeq(title, LAMBDA c : c \notin Illegal)

\* re.match("[0-9]+\.?\s(?P<title>[0-9a-zA-Z\s']+)", title)
TitleClass == Digits \cup Range(LowerChars) \cup Range(UpperChars)
                     \cup Whitespace \cup {"'"}

TitleMatch(title) ==
    LET nd  == RunLen(title, 1, Digits)
        dot == IF Len(title) > nd /\ title[nd + 1] = "." THEN 1 ELSE 0
        sp  == nd + dot + 1
        nt  == RunLen(title, sp + 1, TitleClass)
    IN  IF /\ nd >= 1
           /\ Len(title) >= sp /\ title[sp] \in Whitespace
           /\ nt >= 1
        THEN [matched |-> TRUE, title |-> SubSeq(title, sp + 1, sp + nt)]
        ELSE [matched |-> FALSE, title |-> <<>>]

\* ------------------------------------------------------------------------
\* make_filename(url, title): what the call does, a return or a raise
\* ------------------------------------------------------------------------
Return(v, w) == [kind |-> "return", value |-> v, exc |-> "", warned |-> w]
Raise(e)     == [kind |-> "raise", value |-> <<>>, exc |-> e, warned |-> FALSE]

make_filename(url, title) ==
    LET pieces == Split(UrlTail(url), ".")
    IN  IF Len(pieces) # 2
        THEN Raise("ValueError")       \* the unpacking of line 45; not caught
        ELSE LET file_name == pieces[1]
                 extension == pieces[2]
                 regex     == SeasonEpisodeMatch(Lower(file_name))
                 tm        == TitleMatch(StripIllegal(title))
             IN  IF regex.matched /\ tm.matched
                 THEN Return(<<"S">> \o Zfill(regex.season, 2)
                             \o <<"E">> \o Zfill(regex.episode, 2)
                             \o <<" ">> \o Title(tm.title)
                             \o <<".">> \o extension, FALSE)
                 ELSE Return(UrlTail(url), TRUE)   \* except AttributeError


\* ------------------------------------------------------------------------
\* The document: the season containers and the source elements they hold,
\* in document order.  A season element carries the text of its h1, a source
\* element the text of its h3 and its src attribute.
\* ------------------------------------------------------------------------
SeasonElem(h1) == [tag |-> "season", title |-> h1, src |-> <<>>]
SourceElem(h3, url) == [tag |-> "source", title |-> h3, src |-> url]

SeasonTitles == {<<"A">>, <<"b">>}

Videos ==
    { \* matches both patterns: S01E01 A.m
      SourceElem(<<"1", ".", " ", "A">>, <<"h", "/", "s", "1", "e", "1", ".", "m">>),
      \* no season/episode in the url: falls back to x.m
      SourceElem(<<"2", ".", " ", "B">>, <<"h", "/", "x", ".", "m">>),
      \* trailing segment without an extension separator
      SourceElem(<<"3", ".", " ", "C">>, <<"h", "/", "s", "1", "e", "2">>) }

Elems == {SeasonElem(t) : t \in SeasonTitles} \cup Videos

\* soup.select(...) and season.find_all('source') see only sources inside a
\* season container: a document is empty or starts with a season.
Docs ==
    {<<>>} \cup
    UNION {{d \in [1..n -> Elems] : d[1].tag = "season"} : n \in 1..MaxElems}

IsSource(d, k) == k <= Len(d) /\ d[k].tag = "source"

NumSources(d) == Cardinality({k \in 1..Len(d) : d[k].tag = "source"})

\* len(season.find_all('source')) for the season element at position k
RECURSIVE SourcesFrom(_, _)
SourcesFrom(d, k) == IF IsSource(d, k) THEN 1 + SourcesFrom(d, k + 1) ELSE 0

\* the chunks r.iter_content may yield; the empty one is a keep-alive
Chunks == {<<>>, <<"x">>}

\* os.path.join(season_title, filename)
Join(dir, name) == dir \o <<"/">> \o name

\* ------------------------------------------------------------------------
\* State
\* ------------------------------------------------------------------------
VARIABLES
    f_pc, f_url, f_title, f_parts, f_result,   \* one call of make_filename
    doc, overwrite,          \* the arguments of download_all
    fs, dirs, tmpfiles,      \* files (path -> content), directories, temp files
    stats,                   \* the global stats dict
    pc, i,                   \* position of the walk; i indexes doc
    season_title, ts, now,   \* locals of download_all and the clock
    recv,                    \* chunks the response has yielded so far
    outcome, printed,        \* how download_all ended; summary logged
    run,                     \* which run of the program this is
    fetches, completed, failed, written, fs0, dur_done, dur_cur   \* history

fvars == <<f_pc, f_url, f_title, f_parts, f_result>>
wvars == <<doc, overwrite, fs, dirs, tmpfiles, stats, pc, i, season_title, ts,
           now, recv, outcome, printed, run,
           fetches, completed, failed, written, fs0, dur_done, dur_cur>>
vars == <<fvars, wvars>>

EmptyFs == [p \in {} |-> <<>>]
Exists(fsys, path) == path \in DOMAIN fsys
WriteFile(fsys, path, content) ==
    [p \in DOMAIN fsys \cup {path} |-> IF p = path THEN content ELSE fsys[p]]

\* line 161
InitStats == [total_episodes |-> 0, total_downloads |-> 0,
              total_size_MB |-> 0, total_time_sec |-> 0]

\* What the working directory may hold before the first run
OldFile == Join(<<"a">>, <<"S","0","1","E","0","1"," ","A",".","m">>)
InitDisks ==
    { [dirs |-> {}, fs |-> EmptyFs],
      [dirs |-> {<<"a">>}, fs |-> WriteFile(EmptyFs, OldFile, <<"o">>)] }

FnIdle ==
    /\ f_pc = "idle" /\ f_url = <<>> /\ f_title = <<>>
    /\ f_parts = [wf |-> FALSE, season |-> <<>>, episode |-> <<>>,
                  text |-> <<>>, ext |-> <<>>]
    /\ f_result = Return(<<>>, FALSE)

StartRun ==
    /\ stats' = InitStats
    /\ pc' = "season" /\ i' = 1
    /\ season_title' = <<>> /\ ts' = 0 /\ now' = 0
    /\ recv' = <<>>
    /\ outcome' = "running" /\ printed' = FALSE
    /\ fetches' = 0 /\ completed' = 0 /\ failed' = FALSE /\ written' = <<>>
    /\ dur_done' = 0 /\ dur_cur' = 0

Init ==
    /\ FnIdle
    /\ doc \in Docs
    /\ overwrite \in BOOLEAN
    /\ \E d \in InitDisks : dirs = d.dirs /\ fs = d.fs /\ fs0 = d.fs
    /\ tmpfiles = <<>>
    /\ stats = InitStats
    /\ pc = "season" /\ i = 1
    /\ season_title = <<>> /\ ts = 0 /\ now = 0
    /\ recv = <<>>
    /\ outcome = "running" /\ printed = FALSE
    /\ run = 1
    /\ fetches = 0 /\ completed = 0 /\ failed = FALSE /\ written = <<>>
    /\ dur_done = 0 /\ dur_cur = 0


\* ------------------------------------------------------------------------
\* download_all
\* ------------------------------------------------------------------------
cur == doc[i]
\* line 96 lower-cases the h3 text before line 103 hands it to make_filename
cur_name == make_filename(cur.src, Lower(cur.title))
cur_path == Join(season_title, cur_name.value)

\* line 106
ShouldSkipWhenOverwrite(fsys, path, ow) == Exists(fsys, path) /\ ow
ShouldSkipNever(fsys, path, ow) == FALSE
ShouldSkip(fsys, path, ow) == Exists(fsys, path) /\ ~ow

\* where the loops go after the element before position k
NextPc(k) == IF IsSource(doc, k) THEN "video" ELSE "season"

\* lines 165-169, the finally clause: the summary is logged unless line 167
\* divides by zero (ZeroDivisionError leaves the clause before line 168)
SummaryLogged(st) == st.total_time_sec # 0

\* download_all is left, by a return or by an exception (KeyboardInterrupt
\* is logged at line 164, any other goes on after the finally clause)
PropagateSwallowed(exc) ==
    /\ pc' = NextPc(i + 1) /\ i' = i + 1
    /\ outcome' = outcome
    /\ printed' = printed
Propagate(exc) ==
    /\ pc' = "exit" /\ i' = i
    /\ outcome' = exc
    /\ printed' = SummaryLogged(stats)

\* lines 117-118, with te one tick after the video was taken up
AddTime(t) == t + ((now + 1) - ts)

EndOfVideo ==
    /\ now' = now + 1
    /\ dur_cur' = (now + 1) - ts
    /\ pc' = NextPc(i + 1) /\ i' = i + 1

\* lines 75-92: the head of the season loop
SeasonStart ==
    /\ pc = "season" /\ i <= Len(doc)
    /\ ts' = now
    /\ season_title' = Lower(cur.title)
    /\ stats' = [stats EXCEPT !.total_episodes = @ + SourcesFrom(doc, i + 1)]
    /\ dirs' = dirs \cup {Lower(cur.title)}
    /\ pc' = NextPc(i + 1) /\ i' = i + 1
    /\ dur_done' = dur_done + dur_cur /\ dur_cur' = 0
    /\ UNCHANGED <<fvars, doc, overwrite, fs, tmpfiles, now, recv, outcome,
                   printed, run, fetches, completed, written, failed, fs0>>

\* the season loop is exhausted: download_all returns
WalkReturns ==
    /\ pc = "season" /\ i > Len(doc)
    /\ Propagate("returned")
    /\ UNCHANGED <<fvars, doc, overwrite, fs, dirs, tmpfiles, stats,
                   season_title, ts, now, recv, run,
                   fetches, completed, written, failed, fs0, dur_done, dur_cur>>

\* line 103 raises (the ValueError of line 45)
FilenameRaises ==
    /\ pc = "video" /\ cur_name.kind = "raise"
    /\ Propagate(cur_name.exc)
    /\ UNCHANGED <<fvars, doc, overwrite, fs, dirs, tmpfiles, stats,
                   season_title, ts, now, recv, run,
                   fetches, completed, written, failed, fs0, dur_done, dur_cur>>

\* lines 107-108: a skipped video is only logged
SkipStatsDedented(st) == [st EXCEPT !.total_downloads = @ + 1]
SkipStats(st) == st

\* lines 106-108, 117-118
SkipVideo ==
    /\ pc = "video" /\ cur_name.kind = "return"
    /\ ShouldSkip(fs, cur_path, overwrite)
    /\ stats' = [SkipStats(stats) EXCEPT !.total_time_sec = AddTime(@)]
    /\ EndOfVideo
    /\ UNCHANGED <<fvars, doc, overwrite, fs, dirs, tmpfiles, season_title, ts,
                   recv, outcome, printed, run,
                   fetches, completed, written, failed, fs0, dur_done>>

\* ------------------------------------------------------------------------
\* download_file, called at line 111
\* ------------------------------------------------------------------------
\* lines 29-31: an empty chunk is skipped
WriteChunkTruncating(content, chunk) == IF chunk # <<>> THEN chunk ELSE content
WriteChunk(content, chunk) == IF chunk # <<>> THEN content \o chunk ELSE content

\* line 35
MoveToFilename(fsys, path, content) == WriteFile(fsys, cur_name.value, content)
Move(fsys, path, content) == WriteFile(fsys, path, content)

RECURSIVE Body(_)
Body(chunks) == IF chunks = <<>> THEN <<>> ELSE Head(chunks) \o Body(Tail(chunks))

LastTmp == tmpfiles[Len(tmpfiles)]

\* lines 26-27: the request is answered and the temporary file is created
StartDownload ==
    /\ pc = "video" /\ cur_name.kind = "return"
    /\ ~ShouldSkip(fs, cur_path, overwrite)
    /\ fetches' = fetches + 1
    /\ tmpfiles' = Append(tmpfiles, <<>>)
    /\ recv' = <<>>
    /\ pc' = "stream"
    /\ UNCHANGED <<fvars, doc, overwrite, fs, dirs, stats, i, season_title, ts,
                   now, outcome, printed, run,
                   completed, written, failed, fs0, dur_done, dur_cur>>

\* line 26 raises: no temporary file was created yet
RequestFails ==
    /\ pc = "video" /\ cur_name.kind = "return"
    /\ ~ShouldSkip(fs, cur_path, overwrite)
    /\ fetches' = fetches + 1
    /\ Propagate("error")
    /\ failed' = TRUE
    /\ UNCHANGED <<fvars, doc, overwrite, fs, dirs, tmpfiles, stats,
                   season_title, ts, now, recv, run,
                   completed, written, fs0, dur_done, dur_cur>>

\* lines 28-31: one chunk of the response
ReceiveChunk ==
    /\ pc = "stream" /\ Len(recv) < MaxChunks
    /\ \E c \in Chunks :
        /\ recv' = Append(recv, c)
        /\ tmpfiles' = [tmpfiles EXCEPT ![Len(tmpfiles)] = WriteChunk(@, c)]
    /\ UNCHANGED <<fvars, doc, overwrite, fs, dirs, stats, pc, i, season_title,
                   ts, now, outcome, printed, run,
                   fetches, completed, written, failed, fs0, dur_done, dur_cur>>

\* lines 28-35 raise (the connection breaks, the move is refused): the
\* temporary file was created with delete=False and nothing removes it
DownloadFails ==
    /\ pc = "stream"
    /\ Propagate("error")
    /\ failed' = TRUE
    /\ UNCHANGED <<fvars, doc, overwrite, fs, dirs, tmpfiles, stats,
                   season_title, ts, now, recv, run,
                   fetches, completed, written, fs0, dur_done, dur_cur>>

\* the response ends: lines 32-35, then lines 112-118 of download_all
FinishDownload ==
    /\ pc = "stream"
    /\ fs' = Move(fs, cur_path, LastTmp)
    /\ tmpfiles' = SubSeq(tmpfiles, 1, Len(tmpfiles) - 1)
    /\ completed' = completed + 1
    /\ written' = Append(written, cur_path)
    /\ stats' = [stats EXCEPT !.total_downloads = @ + 1,
                              !.total_size_MB = @ + Len(LastTmp),
                              !.total_time_sec = AddTime(@)]
    /\ recv' = <<>>
    /\ EndOfVideo
    /\ UNCHANGED <<fvars, doc, overwrite, dirs, season_title, ts, outcome,
                   printed, run, fetches, failed, fs0, dur_done>>

\* ------------------------------------------------------------------------
\* __main__, lines 160-169
\* ------------------------------------------------------------------------
\* the operator interrupts download_all (lines 163-164)
Interrupt ==
    /\ pc \in {"season", "video", "stream"}
    /\ Propagate("KeyboardInterrupt")
    /\ UNCHANGED <<fvars, doc, overwrite, fs, dirs, tmpfiles, stats,
                   season_title, ts, now, recv, run,
                   fetches, completed, written, failed, fs0, dur_done, dur_cur>>

\* after a run whose walk completed, the program is started again on the
\* same html, in the same directory, without --overwrite
Rerun ==
    /\ pc = "exit" /\ run = 1 /\ outcome = "returned"
    /\ run' = run + 1
    /\ overwrite' = FALSE
    /\ fs0' = fs
    /\ StartRun
    /\ UNCHANGED <<fvars, doc, fs, dirs, tmpfiles>>

Next ==
    \/ SeasonStart
    \/ WalkReturns
    \/ FilenameRaises
    \/ SkipVideo
    \/ StartDownload
    \/ RequestFails
    \/ ReceiveChunk
    \/ DownloadFails
    \/ FinishDownload
    \/ Interrupt
    \/ Rerun

Spec == Init /\ [][Next]_vars


\* ------------------------------------------------------------------------
\* make_filename on its own: the inputs are drawn, then the call is made
\* ------------------------------------------------------------------------
Strings(alphabet, n) == UNION {[1..k -> alphabet] : k \in 0..n}

Upper(s) == [k \in 1..Len(s) |-> ToUpper(s[k])]

NoParts == [wf |-> FALSE, season |-> <<>>, episode |-> <<>>,
            text |-> <<>>, ext |-> <<>>]

\* arbitrary strings
AnyUrls == {[s |-> u, season |-> <<>>, episode |-> <<>>, ext |-> <<>>, wf |-> FALSE] :
                u \in Strings({"/", ".", "s", "1"}, MaxLen)}
AnyTitles == {[s |-> t, text |-> <<>>, wf |-> FALSE] :
                t \in Strings({"1", " ", "a"}, MaxLen)}

\* urls ending in [short]s<digits>e<digits>[x].<ext>, in either case
DigitStrings == Strings({"0", "7"}, MaxDigits) \ {<<>>}
Exts == {<<"m", "p", "4">>}
WellFormedUrls ==
    { [s |-> (IF long THEN <<"h", "/">> ELSE <<>>)
             \o (IF up THEN Upper(name) ELSE name)
             \o (IF long THEN <<"x">> ELSE <<>>)
             \o <<".">> \o ext,
       season |-> se[1], episode |-> se[2], ext |-> ext, wf |-> TRUE] :
        <<name, se, ext, up, long>> \in
          { <<(IF short THEN ShortMarker ELSE <<>>)
                \o <<"s">> \o x[1][1] \o <<"e">> \o x[1][2], x[1], x[2], x[3], x[4]>> :
              <<x, short>> \in
                ((DigitStrings \X DigitStrings) \X Exts \X BOOLEAN \X BOOLEAN)
                  \X BOOLEAN } }

\* titles "<number>. <text>"
WellFormedTitles ==
    {[s |-> <<"1", "2", ".", " ">> \o t, text |-> t, wf |-> TRUE] :
        t \in Strings({"a", "B", " ", "'"}, MaxText) \ {<<>>}}

WalkIdle ==
    /\ doc = <<>> /\ overwrite = FALSE
    /\ dirs = {} /\ fs = EmptyFs /\ fs0 = EmptyFs /\ tmpfiles = <<>>
    /\ stats = InitStats
    /\ pc = "idle" /\ i = 1
    /\ season_title = <<>> /\ ts = 0 /\ now = 0
    /\ recv = <<>>
    /\ outcome = "running" /\ printed = FALSE
    /\ run = 1
    /\ fetches = 0 /\ completed = 0 /\ failed = FALSE /\ written = <<>>
    /\ dur_done = 0 /\ dur_cur = 0

InitFn ==
    /\ WalkIdle
    /\ f_pc = "call"
    /\ f_result = Return(<<>>, FALSE)
    /\ \E u \in AnyUrls \cup WellFormedUrls, t \in AnyTitles \cup WellFormedTitles :
        /\ f_url = u.s
        /\ f_title = t.s
        /\ f_parts = IF u.wf /\ t.wf
                     THEN [wf |-> TRUE, season |-> u.season, episode |-> u.episode,
                           text |-> t.text, ext |-> u.ext]
                     ELSE NoParts

\* the call returns a filename (line 55 or line 60)
FilenameReturned ==
    /\ f_pc = "call"
    /\ make_filename(f_url, f_title).kind = "return"
    /\ f_result' = make_filename(f_url, f_title)
    /\ f_pc' = "returned"
    /\ UNCHANGED <<f_url, f_title, f_parts, wvars>>

\* the call raises to its caller
FilenameRaised ==
    /\ f_pc = "call"
    /\ make_filename(f_url, f_title).kind = "raise"
    /\ f_result' = make_filename(f_url, f_title)
    /\ f_pc' = "raised"
    /\ UNCHANGED <<f_url, f_title, f_parts, wvars>>

NextFn ==
    \/ FilenameReturned
    \/ FilenameRaised

SpecFn == InitFn /\ [][NextFn]_vars


\* ========================================================================
\* Properties
\* ========================================================================
\* the season container a source at position k lies in
SeasonOf(k) == CHOOSE j \in 1..k : doc[j].tag = "season" /\ \A m \in (j+1)..k : doc[m].tag = "source"

\* the destination path of the source at position k of the document
DocPath(k) ==
    Join(Lower(doc[SeasonOf(k)].title), make_filename(doc[k].src, Lower(doc[k].title)).value)

Named(k) == IsSource(doc, k) /\ make_filename(doc[k].src, Lower(doc[k].title)).kind = "return"

SourcesUpTo(k) == Cardinality({j \in 1..Len(doc) : j <= k /\ doc[j].tag = "source"})

\* a source was processed in this step: the walk neither was interrupted nor
\* left download_all
Processing == pc = "video" /\ cur_name.kind = "return" /\ outcome' = outcome

\* ---- C1 ----------------------------------------------------------------
C1_Counts ==
    /\ fetches <= NumSources(doc)
    /\ pc = "exit" /\ outcome = "returned" /\ overwrite => fetches = NumSources(doc)

C1_Step ==
    /\ Processing =>
          ((fetches' = fetches + 1) <=> (overwrite \/ ~Exists(fs, cur_path)))
    /\ (run' = run /\ fetches' # fetches) => (pc = "video" /\ fetches' = fetches + 1)

\* C1: a source is fetched if and only if overwrite is set or its destination
\* path does not exist when the source is processed; fetches are issued only
\* when a source is processed, so there are at most as many as sources; every
\* source is fetched when overwrite is set and the walk returns.
C1_FetchIffNeeded == [](C1_Counts) /\ [][C1_Step]_vars

\* a second fetch is under way onto a path that exists, under overwrite
C1_Witness ==
    /\ pc = "stream" /\ overwrite /\ fetches = 2
    /\ Exists(fs, cur_path)

\* ---- C2 ----------------------------------------------------------------
\* C2: without overwrite no destination path is written twice in one run.
C2_WrittenOnce ==
    ~overwrite =>
        \A a, b \in 1..Len(written) : a # b => written[a] # written[b]

\* two sources in different season containers derive the same path; the walk
\* returned having written it once
C2_Witness ==
    /\ ~overwrite /\ run = 1 /\ pc = "exit" /\ outcome = "returned"
    /\ \E a, b \in 1..Len(doc) :
          /\ a < b /\ Named(a) /\ Named(b)
          /\ SeasonOf(a) # SeasonOf(b)
          /\ DocPath(a) = DocPath(b)
          /\ written = <<DocPath(a)>>

\* ---- C3 ----------------------------------------------------------------
\* C3: a second walk over the same document without overwrite, after a walk
\* that completed, fetches nothing, leaves every file as it was and counts no
\* download; when it returns, total_episodes is the number of sources.
C3_RerunIdempotent ==
    (run = 2 /\ ~overwrite) =>
        /\ fetches = 0
        /\ fs = fs0
        /\ stats.total_downloads = 0
        /\ (pc = "exit" /\ outcome = "returned") =>
              stats.total_episodes = NumSources(doc)

C3_Witness ==
    /\ run = 2 /\ pc = "exit" /\ outcome = "returned"
    /\ NumSources(doc) = 2
    /\ Cardinality(DOMAIN fs) = 2
    /\ \A p \in DOMAIN fs : fs[p] # <<"o">>

\* ---- C6 ----------------------------------------------------------------
\* C6: every run in which download_all returns normally logs the summary.
C6_SummaryLogged ==
    (pc = "exit" /\ outcome = "returned") => printed

\* ---- C7 ----------------------------------------------------------------
\* C7: after a completed walk total_time_sec is the sum over the seasons of
\* the time from the season's start to the end of its last processed episode.
C7_TimeOncePerSeason ==
    (pc = "exit" /\ outcome = "returned") =>
        stats.total_time_sec = dur_done + dur_cur

\* ---- C8 ----------------------------------------------------------------
C8_Step ==
    (Processing /\ Exists(fs, cur_path) /\ ~overwrite) =>
        /\ i' = i + 1
        /\ fetches' = fetches
        /\ fs' = fs /\ tmpfiles' = tmpfiles
        /\ stats'.total_downloads = stats.total_downloads
        /\ stats'.total_size_MB = stats.total_size_MB
        /\ stats'.total_episodes = stats.total_episodes
        /\ stats.total_episodes = SourcesUpTo(i + SourcesFrom(doc, i) - 1)

\* C8: processing a source whose destination exists, without overwrite,
\* fetches nothing, leaves the files alone and leaves total_downloads and
\* total_size_MB as they were; the source is counted in total_episodes.
C8_SkipLeavesAlone == [][C8_Step]_vars

\* in a first run without overwrite a source was processed, nothing was fetched
C8_Witness ==
    /\ run = 1 /\ ~overwrite /\ fetches = 0
    /\ i > 1 /\ IsSource(doc, i - 1) /\ pc \in {"video", "season"}
    /\ stats.total_time_sec > 0

\* ---- C9 ----------------------------------------------------------------
C9_Inv ==
    /\ stats.total_downloads = completed
    /\ failed => (pc = "exit" /\ outcome = "error")

C9_Step ==
    /\ (failed /\ run' = run) =>
          /\ fetches' = fetches /\ completed' = completed
          /\ dirs' = dirs /\ fs' = fs
          /\ stats' = stats
    /\ (~failed /\ failed') =>
          /\ stats'.total_downloads = stats.total_downloads
          /\ stats'.total_size_MB = stats.total_size_MB
          /\ completed' = completed

\* C9: once a download_file call has raised, the run fetches nothing more,
\* creates no directory, writes no file and counts nothing; the failing call
\* adds nothing to total_downloads and total_size_MB; total_downloads is the
\* number of completed fetches.
C9_FetchErrorAborts == [](C9_Inv) /\ [][C9_Step]_vars

\* a fetch failed after another had completed, with a season still to come
C9_Witness ==
    /\ failed /\ completed = 1
    /\ \E k \in (i+1)..Len(doc) : doc[k].tag = "season"

\* ---- C10 ---------------------------------------------------------------
C10_Step ==
    /\ (pc = "video" /\ pc' = "stream") =>
          (fs' = fs /\ tmpfiles' = Append(tmpfiles, <<>>))
    /\ pc = "stream" =>
          \/ fs' = fs /\ completed' = completed
          \/ /\ completed' = completed + 1
             /\ pc' # "stream"
             /\ fs' = [p \in DOMAIN fs \cup {cur_path} |->
                          IF p = cur_path THEN Body(recv) ELSE fs[p]]
    /\ (pc = "stream" /\ failed') =>
          (fs' = fs /\ tmpfiles' = tmpfiles /\ Len(tmpfiles) >= 1)

Normalized(v) ==
    LET ns == RunLen(v, 2, Digits)
        ne == RunLen(v, 3 + ns, Digits)
    IN  /\ Len(v) >= 1 /\ v[1] = "S"
        /\ ns >= 2
        /\ Len(v) >= 2 + ns /\ v[2 + ns] = "E"
        /\ ne >= 2
        /\ Len(v) >= 3 + ns + ne /\ v[3 + ns + ne] = " "
        /\ \E k \in (4 + ns + ne)..Len(v) : v[k] = "."

\* C4: make_filename never raises: it returns the normalized name or the
\* url's trailing path segment.
C4_NeverRaises ==
    f_pc # "call" =>
        /\ f_pc = "returned"
        /\ f_result.kind = "return"
        /\ Normalized(f_result.value) \/ f_result.value = UrlTail(f_url)

\* ---- C5 ----------------------------------------------------------------
Pad2(d) == IF Len(d) < 2 THEN <<"0">> \o d ELSE d

RECURSIVE TitleCased(_, _)
TitleCased(s, inWord) ==
    IF s = <<>> THEN <<>>
    ELSE <<IF inWord THEN ToLower(Head(s)) ELSE ToUpper(Head(s))>>
         \o TitleCased(Tail(s), IsCased(Head(s)))

\* C5: for a url ending in [short]s<digits>e<digits>...<.ext> and a title
\* "<number>. <text>", make_filename returns S<season>E<episode> <Text>.<ext>,
\* the numbers padded to two digits, whether or not the short marker is there.
C5_WellFormedName ==
    (f_pc # "call" /\ f_parts.wf) =>
        /\ f_pc = "returned"
        /\ f_result.value =
              <<"S">> \o Pad2(f_parts.season) \o <<"E">> \o Pad2(f_parts.episode)
              \o <<" ">> \o TitleCased(f_parts.text, FALSE)
              \o <<".">> \o f_parts.ext

\* a url with the short marker and one-digit numbers got its name
C5_Witness ==
    /\ f_pc = "returned" /\ f_parts.wf
    /\ StartsWith(Lower(UrlTail(f_url)), ShortMarker)
    /\ Len(f_parts.season) = 1 /\ Len(f_parts.episode) = 1
    /\ Len(f_parts.text) = 2

====
